---- MODULE Spec2Model ----
(***************************************************************************)
(* raw2imd: conversion of a raw/flat diskette image (optionally carrying a *)
(* 128-byte "logdisk" geometry trailer) into an IMD container.             *)
(*                                                                         *)
(* The module models src/raw2imd.c: main (option handling, geometry        *)
(* validation, defaults, skew tables), snoop_media (trailer parser),       *)
(* mkskew (skew table builder), process_raw (capacity check, track loop)   *)
(* and read_track (track materialisation).                                 *)
(***************************************************************************)
EXTENDS Integers, Sequences, FiniteSets, TLC

VARIABLES
    pc,        \* position of the program: which step of main/process_raw is next
    status,    \* exit status of the process once it has ended, -1 while running
    args,      \* static struct args
    skew,      \* main's local skew  (-k)
    skew2,     \* main's local skew2 (-K)
    buf,       \* snoop_media's char buf[128], <<>> before it is read
    fsize,     \* length of the source file as fstat reports it, -1 before fstat
    st_size,   \* stb.st_size as process_raw compares it, -1 before fstat
    pos,       \* file offset of the open source descriptor dev_fd
    io,        \* system calls made so far on the source and destination files
    cyl,       \* process_raw's loop variable cyl
    head,      \* process_raw's loop variable head
    disk,      \* disk.tracks[cyl][head] for the tracks materialised so far
    imd,       \* what has been written to the destination container so far
    optarg     \* the values of -o and -O as given on the command line (-1: absent)

vars == <<pc, status, args, skew, skew2, buf, fsize, st_size, pos, io, cyl, head, disk, imd,
          optarg>>

(***************************************************************************)
(* Bounds of the model.                                                    *)
(***************************************************************************)
MaxCyl   == 2    \* largest cylinder count given with -c
MaxHeads == 2    \* largest head count given with -h
MaxSecs  == 3    \* largest sectors/track given with -s
MaxSkewN == 9    \* largest sector count handed to mkskew on its own
MaxSkewK == 11   \* largest skew magnitude handed to mkskew on its own

(***************************************************************************)
(* mkskew: the physical sector skew table.                                 *)
(***************************************************************************)

\* faulty variant of probe: the candidate slot is taken even when it is filled
probeNoCollision(tbl, sn, nudge, secs) == sn

\* while (tbl[sn] >= 0) { sn += nudge; wrap }  -- the probed slot
RECURSIVE probe(_, _, _, _)
probe(tbl, sn, nudge, secs) ==
    IF tbl[sn] >= 0
    THEN LET sn1 == sn + nudge
             sn2 == IF sn1 < 0 THEN secs - 1 ELSE sn1
             sn3 == IF sn2 >= secs THEN 0 ELSE sn2
         IN  probe(tbl, sn3, nudge, secs)
    ELSE sn

\* the first candidate slot of raw position s: sn = (s * sk) % secs
candidate(s, sk, secs) == (s * sk) % secs

\* for (s = 0; s < secs; ++s) { ... tbl[sn] = s; tbl_out[s] = sn; }
RECURSIVE mkskewLoop(_, _, _, _, _, _)
mkskewLoop(s, tbl, tbl_out, sk, nudge, secs) ==
    IF s < secs
    THEN LET sn == probe(tbl, candidate(s, sk, secs), nudge, secs)
         IN  mkskewLoop(s + 1, [tbl EXCEPT ![sn] = s],
                        [tbl_out EXCEPT ![s] = sn], sk, nudge, secs)
    ELSE tbl_out

\* faulty variant of nudgeOf: the sign of the skew is dropped
nudgeForward(k) == 1

\* if (sk < 0) { sk = -sk; nudge = -1; }
nudgeOf(k) == IF k < 0 THEN -1 ELSE 1

\* tbl is memset to -1; tbl_out is malloc'ed without initialisation and every
\* entry of it is assigned by the loop before it is returned.
mkskew(k, secs) ==
    LET sk == IF k < 0 THEN -k ELSE k
    IN  mkskewLoop(0, [i \in 0..(secs - 1) |-> -1], [i \in 0..(secs - 1) |-> -1],
                   sk, nudgeOf(k), secs)

(***************************************************************************)
(* snoop_media: the parser of the 128-byte "logdisk" trailer.              *)
(***************************************************************************)
BufSize == 128          \* char buf[128]
NUL == "NUL"            \* the byte '\0'

Digits == {"0", "1", "2", "3", "4", "5", "6", "7", "8", "9"}

DigitVal(c) ==
    CASE c = "0" -> 0 [] c = "1" -> 1 [] c = "2" -> 2 [] c = "3" -> 3
      [] c = "4" -> 4 [] c = "5" -> 5 [] c = "6" -> 6 [] c = "7" -> 7
      [] c = "8" -> 8 [] c = "9" -> 9

\* strtoul(&buf[e], &end, 10) on a run of decimal digits: <<value, end - buf>>.
\* A token without digits yields 0 with end = &buf[e].
RECURSIVE strtoul(_, _, _)
strtoul(b, e, acc) ==
    IF b[e + 1] \in Digits
    THEN strtoul(b, e + 1, acc * 10 + DigitVal(b[e + 1]))
    ELSE <<acc, e>>

\* the letters of the switch (*end) that do not take the default branch
KnownLetters == {"m", "z", "p", "s", "t", "d", "i", "l", "h"}

\* switch (*end) { case 'm': args.size = p; ... }
setField(a, c, p) ==
    CASE c = "m" -> [a EXCEPT !.size = p]
      [] c = "z" -> [a EXCEPT !.length = p]
      [] c = "p" -> [a EXCEPT !.sectors = p]
      [] c = "s" -> [a EXCEPT !.heads = p]
      [] c = "t" -> [a EXCEPT !.cylinders = p]
      [] c = "d" -> [a EXCEPT !.mfm = p]
      [] c = "i" -> [a EXCEPT !.policy = p]
      [] c = "l" -> a
      [] c = "h" -> a

\* faulty variant of snoopDefaults: the Kaypro case is missing
snoopDefaultsPlain(a) == IF a.offset1 < 0 THEN [a EXCEPT !.offset1 = 1] ELSE a

\* faulty variant of snoopDefaults: side 1 starts after side 0's sectors, computed
\* from the offset as it was on entry
snoopDefaultsRelative(a) ==
    IF a.policy = 2
    THEN [a EXCEPT !.offset1 = 0, !.offset2 = a.offset1 + a.sectors]
    ELSE IF a.offset1 < 0 THEN [a EXCEPT !.offset1 = 1] ELSE a

\* if (args.policy == 2) {...} else {...}: the policy-dependent offsets
snoopDefaults(a) ==
    IF a.policy = 2
    THEN LET a1 == IF a.offset1 < 0 THEN [a EXCEPT !.offset1 = 0] ELSE a
         IN  IF a1.offset2 < 0 THEN [a1 EXCEPT !.offset2 = a1.sectors] ELSE a1
    ELSE IF a.offset1 < 0 THEN [a EXCEPT !.offset1 = 1] ELSE a

\* while (buf[e] != '\n' && buf[e] != '\0' && e < sizeof(buf)) {...}
\* The result is the geometry record and snoop_media's return value e.
RECURSIVE snoopLoop(_, _, _)
snoopLoop(a, b, e) ==
    IF b[e + 1] # "\n" /\ b[e + 1] # NUL /\ e < BufSize
    THEN LET r   == strtoul(b, e, 0)
             p   == r[1]
             end == r[2]
         IN  IF b[end + 1] \in KnownLetters
             THEN snoopLoop(setField(a, b[end + 1], p), b, end + 1)
             ELSE [a |-> a, e |-> -1]
    ELSE [a |-> snoopDefaults(a), e |-> 0]

\* the parse of snoop_media once the trailer is in buf
snoopParse(a, b) == snoopLoop(a, b, 0)

\* the trailer text followed by NUL bytes up to 128 bytes
Pad(t) == t \o [i \in 1..(BufSize - Len(t)) |-> NUL]

\* "5m128z3p2s2t1d2i1l0h\n": the full form, Kaypro policy
TrailerKaypro ==
    Pad(<<"5", "m", "1", "2", "8", "z", "3", "p", "2", "s", "2", "t",
          "1", "d", "2", "i", "1", "l", "0", "h", "\n">>)
\* "256z2p2s1t0i": continuation policy, NUL-terminated
TrailerWrap ==
    Pad(<<"2", "5", "6", "z", "2", "p", "2", "s", "1", "t", "0", "i">>)
\* "2p1s\n": sectors and heads only, the rest left to the command line
TrailerPartial == Pad(<<"2", "p", "1", "s", "\n">>)
\* "300z2p1s1t\n": a sector length that is not supported
TrailerBadLength ==
    Pad(<<"3", "0", "0", "z", "2", "p", "1", "s", "1", "t", "\n">>)
\* "128z1x\n": a letter that is not recognised
TrailerBadLetter == Pad(<<"1", "2", "8", "z", "1", "x", "\n">>)

ValidTrailers == {TrailerKaypro, TrailerWrap, TrailerPartial, TrailerBadLength}
Trailers == ValidTrailers \cup {TrailerBadLetter}

(***************************************************************************)
(* main: the state after the defaults are assigned, and option handling.   *)
(***************************************************************************)

\* a table pointer: NULL, or the table mkskew returned
NullTable == [null |-> TRUE, tbl |-> <<>>]
Table(t) == [null |-> FALSE, tbl |-> t]

\* args as main initialises it (title, read_comment and verbose, which only
\* feed the comment and the display, are not part of the record)
InitArgs ==
    [cylinders |-> -1, heads |-> -1, sectors |-> -1, length |-> -1,
     length_code |-> 0, size |-> -1, mfm |-> 0, dmode |-> -1, policy |-> 1,
     sectbl |-> NullTable, sectbl2 |-> NullTable,
     offset1 |-> -1, offset2 |-> -1, force |-> FALSE, ignore |-> FALSE,
     logdisk |-> FALSE, image_filename |-> FALSE, imd_filename |-> FALSE]

\* values handed to the options; -1 is also what an absent option leaves
CylChoices     == -1..MaxCyl
HeadChoices    == -1..MaxHeads
SecChoices     == -1..MaxSecs
LengthChoices  == {-1, 128, 300}
PolicyChoices  == {0, 1, 2, 3}
OffsetChoices  == {<<-1, -1>>, <<5, -1>>, <<5, 7>>}
SkewChoices    == {-1, 0, 1, 2}
Skew2Choices   == {-1, -3, 3}

\* The command lines tried.  A command line whose geometry main rejects
\* carries no other option but -p; one with -L names either no geometry or
\* -c and -l only, the trailer giving the rest; -k 0, -k 1 and -K 3 come
\* without offsets, flags or -L, and -o and -O come without skews.
Tried(c, h, s, l, o, k, k2, f, ig, L) ==
    /\ (~L /\ (c < 0 \/ h < 0 \/ s < 0 \/ l \notin {128, 256, 512, 1024}))
          => (o = <<-1, -1>> /\ k = -1 /\ k2 = -1 /\ ~f /\ ~ig)
    /\ L => (<<c, h, s, l>> \in {<<-1, -1, -1, -1>>, <<MaxCyl, -1, -1, 128>>})
    /\ (k \in {0, 1} \/ k2 = 3) => (o = <<-1, -1>> /\ ~f /\ ~ig /\ ~L)
    /\ (o # <<-1, -1>>) => (k = -1 /\ k2 = -1)

NoTracks == [t \in {} |-> 0]

\* the destination container before fopen: not opened, nothing written
NoImage == [opened |-> FALSE, header |-> FALSE, tracks |-> <<>>]

Init ==
    /\ pc = "getopt"
    /\ status = -1
    /\ args = InitArgs
    /\ skew = -1
    /\ skew2 = -1
    /\ buf = <<>>
    /\ fsize = -1
    /\ st_size = -1
    /\ pos = 0
    /\ io = <<>>
    /\ cyl = 0
    /\ head = 0
    /\ disk = NoTracks
    /\ imd = NoImage
    /\ optarg = <<-1, -1>>

\* the process has ended
Halted == status >= 0

\* usage(); return r;
Usage(r) == pc' = "usage" /\ status' = r

\* the getopt loop and the positional arguments, for a command line naming
\* the raw file and, when imdGiven, the IMD file
GetOpts ==
    /\ pc = "getopt"
    /\ \E c \in CylChoices, h \in HeadChoices, s \in SecChoices,
          l \in LengthChoices, p \in PolicyChoices,
          o \in OffsetChoices,
          k \in SkewChoices, k2 \in Skew2Choices,
          f \in BOOLEAN, ig \in BOOLEAN, L \in BOOLEAN, imdGiven \in BOOLEAN :
          /\ Tried(c, h, s, l, o, k, k2, f, ig, L)
          /\ args' = [args EXCEPT !.cylinders = c, !.heads = h, !.sectors = s,
                                  !.length = l, !.policy = p,
                                  !.offset1 = o[1], !.offset2 = o[2],
                                  !.force = f, !.ignore = ig, !.logdisk = L,
                                  !.image_filename = TRUE,
                                  !.imd_filename = imdGiven]
          /\ optarg' = o
          /\ skew' = k
          /\ skew2' = k2
          /\ pc' = IF L THEN "snoop" ELSE "resolve"
    /\ UNCHANGED <<status, buf, fsize, st_size, pos, io, cyl, head, disk, imd>>

\* an option getopt does not know, or a data rate that is not accepted
GetOptsError ==
    /\ pc = "getopt"
    /\ Usage(1)
    /\ UNCHANGED <<args, skew, skew2, buf, fsize, st_size, pos, io, cyl, head, disk, imd, optarg>>

\* no raw file named (return 0), or more than two file names (return 1)
GetOptsNoFiles ==
    /\ pc = "getopt"
    /\ \E tooMany \in BOOLEAN :
          /\ Usage(IF tooMany THEN 1 ELSE 0)
          /\ args' = [args EXCEPT !.image_filename = tooMany]
    /\ UNCHANGED <<skew, skew2, buf, fsize, st_size, pos, io, cyl, head, disk, imd, optarg>>

\* a system call on the source ("src") or the destination ("imd")
Call(op, file, arg) == [op |-> op, file |-> file, arg |-> arg]

\* if (args.logdisk) { x = snoop_media(...); if (x < 0) exit(1); }
\* open, lseek or read may fail; otherwise the trailer is parsed.
Snoop ==
    /\ pc = "snoop"
    /\ \/ /\ io' = io \o <<Call("open", "src", -1)>>
          /\ pc' = "exit_snoop" /\ status' = 1
          /\ UNCHANGED <<args, buf>>
       \/ /\ io' = io \o <<Call("open", "src", 0), Call("lseek_end", "src", -1),
                           Call("close", "src", 0)>>
          /\ pc' = "exit_snoop" /\ status' = 1
          /\ UNCHANGED <<args, buf>>
       \/ /\ io' = io \o <<Call("open", "src", 0), Call("lseek_end", "src", 0),
                           Call("read", "src", -1), Call("close", "src", 0)>>
          /\ pc' = "exit_snoop" /\ status' = 1
          /\ UNCHANGED <<args, buf>>
       \/ \E b \in Trailers :
             LET r == snoopParse(args, b)
             IN  /\ io' = io \o <<Call("open", "src", 0),
                                  Call("lseek_end", "src", 0),
                                  Call("read", "src", BufSize),
                                  Call("close", "src", 0)>>
                 /\ buf' = b
                 /\ args' = r.a
                 /\ IF r.e < 0
                    THEN pc' = "exit_snoop" /\ status' = 1
                    ELSE pc' = "resolve" /\ status' = status
    /\ UNCHANGED <<skew, skew2, fsize, st_size, pos, cyl, head, disk, imd, optarg>>

\* switch (args.length) { case 128: args.length_code = 0; ... }: the length
\* code, or -1 for a length that takes the default branch
LengthCode(l) ==
    CASE l = 128 -> 0 [] l = 256 -> 1 [] l = 512 -> 2 [] l = 1024 -> 3
      [] OTHER -> -1

\* faulty variant of Rejected: the switch has no default branch
RejectedNegativeOnly(a) ==
    a.cylinders < 0 \/ a.heads < 0 \/ a.sectors < 0 \/ a.length < 0

\* if (args.cylinders < 0 || ...) and the default branch of the switch
Rejected(a) ==
    \/ a.cylinders < 0 \/ a.heads < 0 \/ a.sectors < 0 \/ a.length < 0
    \/ LengthCode(a.length) < 0

MFM_250K == 0
FM_250K  == 1
MFM_500K == 4
FM_500K  == 5

\* the data mode when no data rate is given (data_rate < 0)
DataMode(a) ==
    IF a.size = 8 THEN (IF a.mfm # 0 THEN MFM_500K ELSE FM_500K)
    ELSE IF a.size = 5 THEN (IF a.mfm # 0 THEN MFM_250K ELSE FM_250K)
    ELSE MFM_250K

\* if (args.offset1 < 0) args.offset1 = 1; if (args.offset2 < 0) ...
mainOffsets(a) ==
    LET a1 == IF a.offset1 < 0 THEN [a EXCEPT !.offset1 = 1] ELSE a
    IN  IF a1.offset2 < 0 THEN [a1 EXCEPT !.offset2 = a1.offset1] ELSE a1

Abs(n) == IF n < 0 THEN -n ELSE n

\* if (abs(skew) > 1) args.sectbl = mkskew(skew, args.sectors);
skewTable(k, secs) == IF Abs(k) > 1 THEN Table(mkskew(k, secs)) ELSE NullTable

\* main from the geometry check to the call of process_raw
Resolve ==
    /\ pc = "resolve"
    /\ IF Rejected(args)
       THEN /\ Usage(1)
            /\ UNCHANGED args
       ELSE LET a1 == [args EXCEPT !.length_code = LengthCode(args.length)]
                a2 == IF a1.size < 0 THEN [a1 EXCEPT !.size = 5] ELSE a1
                a3 == [a2 EXCEPT !.dmode = DataMode(a2)]
                a4 == mainOffsets(a3)
            IN  /\ args' = [a4 EXCEPT !.sectbl = skewTable(skew, a4.sectors),
                                      !.sectbl2 = skewTable(skew2, a4.sectors)]
                /\ pc' = "process_raw"
                /\ status' = status
    /\ UNCHANGED <<skew, skew2, buf, fsize, st_size, pos, io, cyl, head, disk, imd, optarg>>

(***************************************************************************)
(* read_track: materialisation of one track.                               *)
(***************************************************************************)
Min(x, y) == IF x < y THEN x ELSE y
Max(x, y) == IF x < y THEN y ELSE x

\* a sector's data pointer: NULL, or a buffer of args.length bytes of which
\* the first n hold the file's bytes from offset off (the rest is whatever
\* malloc returned)
NoData == [alloc |-> FALSE, off |-> 0, n |-> 0]
Data(off, n) == [alloc |-> TRUE, off |-> off, n |-> n]

\* a sector of a track that read_track has not populated
MissingSector ==
    [log_cyl |-> -1, log_head |-> -1, log_sector |-> -1, deleted |-> FALSE,
     status |-> "MISSING", data |-> NoData]

\* faulty variant of seekOffset: the offset of the interlaced layout
seekOffsetInterlaced(a, c, hd) == (c * a.heads + hd) * a.sectors * a.length

\* o = (hd * args.cylinders + cyl) * args.sectors * args.length
seekOffset(a, c, hd) == (hd * a.cylinders + c) * a.sectors * a.length

\* if (args.policy == 0) lseek(fd, o, SEEK_SET): the policies that seek
seeks(a) == a.policy = 0

\* faulty variant of slotOf: the side-1 table is never consulted
slotOfHead0Table(a, hd, s) ==
    IF ~a.sectbl.null THEN a.sectbl.tbl[s] ELSE s

\* sn: the slot of raw position s on head hd
slotOf(a, hd, s) ==
    IF hd > 0 /\ ~a.sectbl2.null THEN a.sectbl2.tbl[s]
    ELSE IF ~a.sectbl.null THEN a.sectbl.tbl[s]
    ELSE s

\* faulty variant of logHead: no Kaypro special case
logHeadPhysical(a, hd) == hd

\* sec->log_head
logHead(a, hd) == IF a.policy = 2 THEN 0 ELSE hd

\* sec->log_sector = s + (hd ? args.offset2 : args.offset1)
logSector(a, hd, s) == s + (IF hd # 0 THEN a.offset2 ELSE a.offset1)

\* read(fd, sec->data, args.length) at offset p of a file of flen bytes
readCount(a, p, flen) == Min(a.length, Max(0, flen - p))

\* faulty variant of readFatal: a short read ends the conversion too
readFatalShort(n, len) == n < len

\* if (n < 0) exit(1): the results of read that end the conversion
readFatal(n, len) == n < 0

\* what can go wrong in one call of read_track: nothing, the lseek, or the
\* malloc or the read of the sector at raw position `at` (the track's last
\* sector, so that the sectors before it are populated when it fails)
Failures(a) ==
    {[kind |-> "none", at |-> 0]}
    \cup (IF seeks(a) THEN {[kind |-> "lseek", at |-> 0]} ELSE {})
    \cup {[kind |-> k, at |-> a.sectors - 1] : k \in {"malloc", "read"}}

\* for (s = 0; s < args.sectors; ++s) {...}; st is [track, pos, io, exit]
RECURSIVE readSectors(_, _, _, _, _, _)
readSectors(a, flen, fail, hd, s, st) ==
    IF s < a.sectors
    THEN LET sn  == slotOf(a, hd, s)
             sec == [log_cyl |-> st.track.phys_cyl, log_head |-> logHead(a, hd),
                     log_sector |-> logSector(a, hd, s), deleted |-> FALSE,
                     status |-> "GOOD", data |-> NoData]
             n   == IF fail.kind = "read" /\ fail.at = s THEN -1
                    ELSE readCount(a, st.pos, flen)
         IN  IF fail.kind = "malloc" /\ fail.at = s
             THEN [st EXCEPT !.track.sectors[sn] = sec, !.exit = "exit_malloc"]
             ELSE IF readFatal(n, a.length)
             THEN [st EXCEPT !.track.sectors[sn] = [sec EXCEPT !.data = Data(st.pos, 0)],
                             !.io = st.io \o <<Call("read", "src", n)>>,
                             !.exit = "exit_read"]
             ELSE readSectors(a, flen, fail, hd, s + 1,
                     [st EXCEPT !.track.sectors[sn] = [sec EXCEPT !.data = Data(st.pos, n)],
                                !.io = st.io \o <<Call("read", "src", n)>>,
                                !.pos = st.pos + n])
    ELSE st

\* read_track(track, cyl, hd, fd) with the descriptor at offset p
read_track(a, flen, fail, c, hd, p) ==
    LET track == [phys_cyl |-> c, phys_head |-> hd, num_sectors |-> a.sectors,
                  sector_size_code |-> a.length_code, data_mode |-> a.dmode,
                  status |-> "PROBED",
                  sectors |-> [i \in 0..(a.sectors - 1) |-> MissingSector]]
        o     == seekOffset(a, c, hd)
    IN  IF seeks(a) /\ fail.kind = "lseek"
        THEN [track |-> [track EXCEPT !.status = "UNKNOWN", !.num_sectors = 0],
              pos |-> p, io |-> <<Call("lseek", "src", -1)>>, exit |-> "exit_seek"]
        ELSE readSectors(a, flen, fail, hd, 0,
                 [track |-> track,
                  pos |-> IF seeks(a) THEN o ELSE p,
                  io |-> IF seeks(a) THEN <<Call("lseek", "src", o)>> ELSE <<>>,
                  exit |-> ""])

(***************************************************************************)
(* process_raw: capacity check, destination, track loop.                   *)
(***************************************************************************)

\* int cap = args.cylinders * args.heads * args.sectors * args.length
Cap(a) == a.cylinders * a.heads * a.sectors * a.length

\* the 128 bytes of the trailer at the end of a logdisk file
TrailerLen(a) == IF a.logdisk THEN BufSize ELSE 0

\* lengths of the source file tried for a geometry of capacity cap: no
\* sector data, one byte short, exact, one byte over (plus the trailer)
FileLengths(a) ==
    {n + TrailerLen(a) : n \in {m \in {0, Cap(a) - 1, Cap(a), Cap(a) + 1} : m >= 0}}

\* if (args.logdisk) stb.st_size -= 128
adjusted(a, len) == IF a.logdisk THEN len - BufSize ELSE len


\* faulty variant of tooLarge: the size is not compared
tooLargeNever(a, size) == FALSE

\* if (!args.ignore && stb.st_size > cap) die("image file too large")
tooLarge(a, size) == ~a.ignore /\ size > Cap(a)

\* faulty variant of tooSmall: the ignore flag also lets a small image through
tooSmallUnlessIgnore(a, size) == ~a.force /\ ~a.ignore /\ size < Cap(a)

\* if (!args.force && stb.st_size < cap) die("image file too small")
tooSmall(a, size) == ~a.force /\ size < Cap(a)

\* open, fstat and the two capacity checks
ProcessRawCheck ==
    /\ pc = "process_raw"
    /\ \/ /\ io' = io \o <<Call("open", "src", -1)>>
          /\ pc' = "die_open" /\ status' = 1
          /\ UNCHANGED <<fsize, st_size>>
       \/ \E len \in FileLengths(args) :
             LET size == adjusted(args, len)
             IN
             /\ io' = io \o <<Call("open", "src", 0), Call("fstat", "src", 0)>>
             /\ fsize' = len
             /\ st_size' = size
             /\ IF tooLarge(args, size)
                THEN pc' = "die_too_large" /\ status' = 1
                ELSE IF tooSmall(args, size)
                THEN pc' = "die_too_small" /\ status' = 1
                ELSE pc' = "image" /\ status' = status
    /\ UNCHANGED <<args, skew, skew2, buf, pos, cyl, head, disk, imd, optarg>>

\* if (args.imd_filename != NULL) { fopen; write_imd_header }
ProcessRawImage ==
    /\ pc = "image"
    /\ IF args.imd_filename
       THEN \/ /\ io' = io \o <<Call("fopen", "imd", -1)>>
               /\ pc' = "die_open" /\ status' = 1
               /\ UNCHANGED imd
            \/ /\ io' = io \o <<Call("fopen", "imd", 0)>>
               /\ imd' = [imd EXCEPT !.opened = TRUE, !.header = TRUE]
               /\ pc' = "read" /\ status' = status
       ELSE /\ pc' = "read"
            /\ UNCHANGED <<io, imd, status>>
    /\ UNCHANGED <<args, skew, skew2, buf, fsize, st_size, pos, cyl, head, disk, optarg>>

\* the loop tests: cyl < disk.num_phys_cyls and head < disk.num_phys_heads
InLoop(c, h) == c < args.cylinders /\ h < args.heads

\* faulty variant of NextCyl: the cylinder advances after every track
NextCylEveryTrack(c, h) == c + 1

\* head++, and cyl++ with head = 0 once the inner loop is over
NextCyl(c, h)  == IF h + 1 < args.heads THEN c ELSE c + 1
NextHead(c, h) == IF h + 1 < args.heads THEN h + 1 ELSE 0

\* faulty variant of storeTrack: the tracks read before are released
storeTrackAlone(d, c, h, t) == (<<c, h>> :> t)

\* track_t *track = &(disk.tracks[cyl][head]): the track read is a member of
\* the disk, beside the tracks read before
storeTrack(d, c, h, t) == (<<c, h>> :> t) @@ d

\* read_track(track, cyl, head, dev_fd) of the loop body
ReadTrack ==
    /\ pc = "read"
    /\ InLoop(cyl, head)
    /\ \E fail \in Failures(args) :
          LET r == read_track(args, fsize, fail, cyl, head, pos)
          IN  /\ disk' = storeTrack(disk, cyl, head, r.track)
              /\ pos' = r.pos
              /\ io' = io \o r.io
              /\ IF r.exit # ""
                 THEN /\ pc' = r.exit /\ status' = 1
                      /\ UNCHANGED <<cyl, head>>
                 ELSE IF args.imd_filename
                 THEN /\ pc' = "write" /\ status' = status
                      /\ UNCHANGED <<cyl, head>>
                 ELSE /\ pc' = "read" /\ status' = status
                      /\ cyl' = NextCyl(cyl, head)
                      /\ head' = NextHead(cyl, head)
    /\ UNCHANGED <<args, skew, skew2, buf, fsize, st_size, imd, optarg>>

\* write_imd_track(track, image); fflush(image);
WriteTrack ==
    /\ pc = "write"
    /\ imd' = [imd EXCEPT !.tracks = Append(@, disk[<<cyl, head>>])]
    /\ io' = io \o <<Call("fwrite", "imd", 0)>>
    /\ cyl' = NextCyl(cyl, head)
    /\ head' = NextHead(cyl, head)
    /\ pc' = "read"
    /\ UNCHANGED <<status, args, skew, skew2, buf, fsize, st_size, pos, disk, optarg>>

\* fclose(image); close(dev_fd); free_disk(&disk); return 0;
Finish ==
    /\ pc = "read"
    /\ ~InLoop(cyl, head)
    /\ io' = io \o (IF args.imd_filename THEN <<Call("fclose", "imd", 0)>> ELSE <<>>)
                \o <<Call("close", "src", 0)>>
    /\ disk' = NoTracks
    /\ pc' = "done"
    /\ status' = 0
    /\ UNCHANGED <<args, skew, skew2, buf, fsize, st_size, pos, cyl, head, imd, optarg>>

Next ==
    \/ GetOpts
    \/ GetOptsError
    \/ GetOptsNoFiles
    \/ Snoop
    \/ Resolve
    \/ ProcessRawCheck
    \/ ProcessRawImage
    \/ ReadTrack
    \/ WriteTrack
    \/ Finish

Spec == Init /\ [][Next]_vars

(***************************************************************************)
(* mkskew on its own: every nonzero skew and every sector count from 1 up, *)
(* the table being stored as main stores it.                               *)
(***************************************************************************)
InitSkew ==
    /\ pc = "mkskew"
    /\ status = -1
    /\ \E n \in 1..MaxSkewN : args = [InitArgs EXCEPT !.sectors = n]
    /\ skew \in (-MaxSkewK..MaxSkewK) \ {0}
    /\ skew2 = -1
    /\ buf = <<>>
    /\ fsize = -1
    /\ st_size = -1
    /\ pos = 0
    /\ io = <<>>
    /\ cyl = 0
    /\ head = 0
    /\ disk = NoTracks
    /\ imd = NoImage
    /\ optarg = <<-1, -1>>

\* args.sectbl = mkskew(skew, args.sectors);
CallMkskew ==
    /\ pc = "mkskew"
    /\ args' = [args EXCEPT !.sectbl = Table(mkskew(skew, args.sectors))]
    /\ pc' = "mkskew_done"
    /\ UNCHANGED <<status, skew, skew2, buf, fsize, st_size, pos, io, cyl, head, disk, imd,
                   optarg>>

SpecSkew == InitSkew /\ [][CallMkskew]_vars

(***************************************************************************)
(* snoop_media's parse applied twice to the same trailer, from any         *)
(* starting geometry record.                                               *)
(***************************************************************************)
StartRecords ==
    {[InitArgs EXCEPT !.cylinders = g[1], !.heads = g[2], !.sectors = g[3],
                      !.length = g[4], !.size = sz, !.mfm = m, !.policy = p,
                      !.offset1 = o[1], !.offset2 = o[2]] :
        g \in {<<-1, -1, -1, -1>>, <<MaxCyl, MaxHeads, MaxSecs, 512>>},
        sz \in {-1, 8}, m \in {0, 1}, p \in PolicyChoices, o \in OffsetChoices}

InitSnoop ==
    /\ pc = "parse_1"
    /\ status = -1
    /\ args \in StartRecords
    /\ skew = -1
    /\ skew2 = -1
    /\ buf \in ValidTrailers
    /\ fsize = -1
    /\ st_size = -1
    /\ pos = 0
    /\ io = <<>>
    /\ cyl = 0
    /\ head = 0
    /\ disk = NoTracks
    /\ imd = NoImage
    /\ optarg = <<-1, -1>>

\* one parse of the trailer in buf into args
ParseTrailer ==
    /\ pc \in {"parse_1", "parse_2"}
    /\ args' = snoopParse(args, buf).a
    /\ pc' = IF pc = "parse_1" THEN "parse_2" ELSE "parse_done"
    /\ UNCHANGED <<status, skew, skew2, buf, fsize, st_size, pos, io, cyl, head, disk, imd,
                   optarg>>

SpecSnoop == InitSnoop /\ [][ParseTrailer]_vars

(***************************************************************************)
(* Properties.                                                             *)
(***************************************************************************)

\* the table mkskew returned in SpecSkew, and its sector count
SkewDone == pc = "mkskew_done"
tbl_out == args.sectbl.tbl
secs == args.sectors

\* C1: for every sector count n >= 1 and every nonzero skew k, mkskew(k, n)
\* returns (so it terminates) a table over 0..n-1 in which every slot index
\* appears exactly once.
C1_SkewIsPermutation ==
    SkewDone =>
        /\ DOMAIN tbl_out = 0..(secs - 1)
        /\ \A slot \in 0..(secs - 1) :
              Cardinality({p \in 0..(secs - 1) : tbl_out[p] = slot}) = 1

\* a skew that divides the sector count: the candidates collide and the table
\* differs from the candidate slots
C1_Witness ==
    /\ SkewDone /\ skew = 3 /\ secs = 9
    /\ \E p \in 0..8 : tbl_out[p] # (p * 3) % 9

\* the first slot of c, c+d, c+2d, ... (mod n) that no raw position before p
\* has taken
FirstUnfilled(p, c, d, n) ==
    LET filled == {tbl_out[q] : q \in 0..(p - 1)}
        at(j)  == (c + d * j + n * j) % n
        j0     == CHOOSE j \in 0..(n - 1) :
                      /\ at(j) \notin filled
                      /\ \A i \in 0..(j - 1) : at(i) \in filled
    IN  at(j0)

\* the order in which the raw positions (numbered from 1) lie in the slots
PhysicalOrder == [slot \in 1..secs |-> 1 + (CHOOSE p \in 0..(secs - 1) : tbl_out[p] = slot - 1)]

\* C2: for |k| > 1, raw position p is placed in the first still-unfilled slot
\* of c, c+d, c+2d, ... (mod n) with c = (p * |k|) mod n, d = +1 for k > 0
\* and -1 for k < 0; skew 4 with 9 sectors gives the physical order
\* 1,8,6,4,2,9,7,5,3.
C2_SkewFirstUnfilled ==
    (SkewDone /\ Abs(skew) > 1) =>
        /\ \A p \in 0..(secs - 1) :
              tbl_out[p] = FirstUnfilled(p, (p * Abs(skew)) % secs,
                                         IF skew > 0 THEN 1 ELSE -1, secs)
        /\ (skew = 4 /\ secs = 9) => PhysicalOrder = <<1, 8, 6, 4, 2, 9, 7, 5, 3>>

\* a negative skew whose candidates collide: raw position 2 of 4 sectors with
\* skew -2 finds slot 0 taken and probes backwards, wrapping to slot 3
C2_Witness ==
    /\ SkewDone /\ skew = -2 /\ secs = 4
    /\ tbl_out = (0 :> 0 @@ 1 :> 2 @@ 2 :> 3 @@ 3 :> 1)

\* the declared capacity and the source length the capacity check compares
declared == args.cylinders * args.heads * args.sectors * args.length
actual == fsize - (IF args.logdisk THEN 128 ELSE 0)

\* C3: once process_raw has made its capacity check, the run has died with
\* "image too large" exactly when actual > declared and ignore is not set,
\* and with "image too small" exactly when actual < declared and force is
\* not set; actual = declared passes whatever the flags are.
C3_CapacityCheck ==
    (fsize >= 0) =>
        /\ (pc = "die_too_large") <=> (~args.ignore /\ actual > declared)
        /\ (pc = "die_too_small") <=> (~args.force /\ actual < declared)
        /\ (actual = declared) => pc \notin {"die_too_large", "die_too_small"}

\* a too-small image is refused although ignore is set: the flags are
\* independent
C3_Witness ==
    /\ pc = "die_too_small" /\ args.ignore /\ ~args.force
    /\ actual < declared /\ args.logdisk

\* the tracks written so far are (0,0), (0,1), (1,0), ... in this order
CylinderMajor ==
    \A i \in 1..Len(imd.tracks) :
        /\ imd.tracks[i].phys_cyl = (i - 1) \div args.heads
        /\ imd.tracks[i].phys_head = (i - 1) % args.heads

\* every sector of every written track was populated by read_track
WrittenPopulated ==
    \A i \in 1..Len(imd.tracks) :
        \A sn \in DOMAIN imd.tracks[i].sectors :
            /\ imd.tracks[i].sectors[sn].status = "GOOD"
            /\ imd.tracks[i].sectors[sn].data.alloc

\* C4 as claimed: every run that completes has written each (cylinder, head)
\* exactly once, in cylinder-major order, each track fully populated.
C4_Original ==
    /\ CylinderMajor
    /\ WrittenPopulated
    /\ (pc = "done") => Len(imd.tracks) = args.cylinders * args.heads

\* C4 amended: the tracks are written in cylinder-major, head-minor order,
\* each only once fully populated; a completed run has written each
\* (cylinder, head) exactly once when an IMD file was named, and none when
\* no IMD file was named.
C4_TracksWrittenInOrder ==
    /\ CylinderMajor
    /\ WrittenPopulated
    /\ (pc = "done" /\ args.imd_filename) =>
            Len(imd.tracks) = args.cylinders * args.heads
    /\ (~args.imd_filename) => imd = NoImage

\* a completed conversion of 2 cylinders and 2 heads into an IMD file
C4_Witness ==
    /\ pc = "done" /\ args.imd_filename
    /\ args.cylinders = 2 /\ args.heads = 2 /\ args.sectors = 3
    /\ Len(imd.tracks) = 4

\* the sector that read_track filled from raw position s of track t
RawSector(t, s) == disk[t].sectors[slotOf(args, t[2], s)]

PastResolve ==
    pc \in {"process_raw", "image", "read", "write", "done", "die_open",
            "die_too_large", "die_too_small", "exit_seek", "exit_malloc", "exit_read"}

\* neither -o nor -O was given
NoExplicitOffsets == optarg = <<-1, -1>>

\* every sector read so far is numbered s + base(head) for its raw position s
NumberedFrom(base(_)) ==
    \A t \in DOMAIN disk : \A s \in 0..(args.sectors - 1) :
        RawSector(t, s).status = "GOOD" =>
            RawSector(t, s).log_sector = s + base(t[2])

\* the first sector numbers as claimed: the policy alone decides
ClaimedBase(h) ==
    IF args.policy = 2 THEN (IF h = 0 THEN 0 ELSE args.sectors) ELSE 1

\* the first sector numbers of the code: policy 2 counts only with -L
DefaultBase(h) ==
    IF args.policy = 2 /\ args.logdisk THEN (IF h = 0 THEN 0 ELSE args.sectors) ELSE 1

\* C6 as claimed: with policy 2 and no explicit offsets head 0 is numbered
\* from 0 and head 1 from the sector count however the geometry was given;
\* with any other policy both heads are numbered from 1.
C6_Original == NoExplicitOffsets => NumberedFrom(ClaimedBase)

\* C6 amended: the policy-2 numbering (head 0 from 0, head 1 from the sector
\* count) is the default only when the trailer was parsed (-L); with policy
\* 2 given by explicit parameters alone, and with any other policy, both
\* heads are numbered from 1.
C6_DefaultOffsets ==
    NoExplicitOffsets =>
        /\ NumberedFrom(DefaultBase)
        /\ PastResolve =>
              (args.offset1 = DefaultBase(0) /\ args.offset2 = DefaultBase(1))

\* a Kaypro logdisk image: raw position 0 of head 1 is sector 3 of 3
C6_Witness ==
    /\ args.logdisk /\ args.policy = 2 /\ NoExplicitOffsets
    /\ args.sectors = 3
    /\ <<0, 1>> \in DOMAIN disk
    /\ RawSector(<<0, 1>>, 0).log_sector = 3
    /\ RawSector(<<0, 1>>, 0).status = "GOOD"

\* C7 as claimed: a run whose sector length is not supported ends in failure
\* without any I/O having been attempted.
C7_Original ==
    (pc = "usage" /\ args.length > 0 /\ args.length \notin {128, 256, 512, 1024}) =>
        (status = 1 /\ io = <<>>)

\* C7 amended: a run whose sector length is not supported never reaches
\* process_raw: the destination is never opened or written, no track is
\* read, and the only I/O is snoop_media's open, seek, read and close of the
\* source's trailer when -L is given (none without -L); a run naming a raw
\* file ends with status 1.
C7_BadLengthStopsBeforeProcessRaw ==
    (args.length \notin {128, 256, 512, 1024}) =>
        /\ pc \in {"getopt", "snoop", "resolve", "usage", "exit_snoop"}
        /\ imd = NoImage /\ disk = NoTracks /\ fsize = -1
        /\ (~args.logdisk) => io = <<>>
        /\ Len(io) <= 4
        /\ \A i \in 1..Len(io) :
              io[i].file = "src" /\ io[i].op \in {"open", "lseek_end", "read", "close"}
        /\ (Halted /\ args.image_filename) => status = 1

\* a logdisk image whose trailer names 300-byte sectors: rejected by main
\* after snoop_media has opened and read the source
C7_Witness ==
    /\ pc = "usage" /\ args.length = 300 /\ args.logdisk
    /\ Len(io) = 4 /\ io[3] = [op |-> "read", file |-> "src", arg |-> 128]

\* C8 as claimed: a short read ends the conversion, so no written track
\* holds a sector that was read short.
C8_Original ==
    \A i \in 1..Len(imd.tracks) : \A sn \in DOMAIN imd.tracks[i].sectors :
        imd.tracks[i].sectors[sn].data.n = args.length

\* read_track has ended the process
ReadTrackFailed == pc \in {"exit_seek", "exit_malloc", "exit_read"}

\* C8 amended: a read error (read returning a negative value), a seek
\* failure and an allocation failure end the conversion with the track at
\* hand and all later tracks never written; a short read of 0 <= n <
\* sector_length bytes is not detected, and the conversion goes on.
C8_ReadFailuresAreFatal ==
    /\ ReadTrackFailed =>
          /\ status = 1
          /\ ~ENABLED Next
          /\ Len(imd.tracks) = IF args.imd_filename THEN cyl * args.heads + head ELSE 0
          /\ \A i \in 1..Len(imd.tracks) :
                <<imd.tracks[i].phys_cyl, imd.tracks[i].phys_head>> # <<cyl, head>>
    /\ \A i \in 1..Len(io) : io[i].arg < 0 => (Halted /\ status = 1)
    /\ (pc = "exit_read") =>
          (io[Len(io)].op = "read" /\ io[Len(io)].arg < 0)
    /\ \A i \in 1..Len(imd.tracks) : \A sn \in DOMAIN imd.tracks[i].sectors :
          /\ imd.tracks[i].sectors[sn].data.alloc
          /\ imd.tracks[i].sectors[sn].data.n \in 0..args.length

\* a forced conversion of an empty source: track (0,0) was written from reads
\* of 0 bytes, then a read error on track (0,1) ended the run
C8_Witness ==
    /\ pc = "exit_read" /\ args.force /\ fsize = 0
    /\ cyl = 0 /\ head = 1 /\ args.sectors = 3
    /\ Len(imd.tracks) = 1
    /\ imd.tracks[1].sectors[0].data.n = 0

\* C9: every sector read_track produces has the physical cylinder as its
\* logical cylinder, and logical head 0 under policy 2 and the physical
\* head under every other policy; a policy other than 0 and 2 (1, or an
\* id outside {0, 1, 2}) is accepted, makes no seek and defaults both
\* offsets to 1.
C9_PolicyHeads ==
    /\ \A t \in DOMAIN disk : \A sn \in DOMAIN disk[t].sectors :
          disk[t].sectors[sn].status = "GOOD" =>
              /\ disk[t].sectors[sn].log_cyl = t[1]
              /\ disk[t].sectors[sn].log_head = IF args.policy = 2 THEN 0 ELSE t[2]
    /\ \A i \in 1..Len(imd.tracks) : \A sn \in DOMAIN imd.tracks[i].sectors :
          /\ imd.tracks[i].sectors[sn].log_cyl = imd.tracks[i].phys_cyl
          /\ imd.tracks[i].sectors[sn].log_head
                = IF args.policy = 2 THEN 0 ELSE imd.tracks[i].phys_head
    /\ (args.policy \notin {0, 2}) =>
          /\ \A i \in 1..Len(io) : io[i].op # "lseek"
          /\ (PastResolve /\ NoExplicitOffsets) =>
                (args.offset1 = 1 /\ args.offset2 = 1)
    /\ (pc = "usage") =>
          \/ args.cylinders < 0 \/ args.heads < 0 \/ args.sectors < 0
          \/ args.length \notin {128, 256, 512, 1024}

\* policy 3: track (0,1) is about to be written with logical head 1, read
\* without a seek
C9_Witness ==
    /\ pc = "write" /\ args.policy = 3 /\ cyl = 0 /\ head = 1
    /\ args.sectors = 3
    /\ disk[<<0, 1>>].sectors[0].log_head = 1
    /\ disk[<<0, 1>>].sectors[0].log_cyl = 0
    /\ \A i \in 1..Len(io) : io[i].op # "lseek"

\* C10: parsing the same valid trailer a second time leaves the geometry
\* record as the first parse left it, whatever the starting record was.
C10_SnoopIdempotent == [][(pc = "parse_2") => (args' = args)]_vars

\* the Kaypro trailer parsed twice from a record without offsets
C10_Witness ==
    /\ pc = "parse_done" /\ buf = TrailerKaypro
    /\ args.policy = 2 /\ args.offset1 = 0 /\ args.offset2 = 3
    /\ args.cylinders = 2 /\ args.length = 128 /\ args.size = 5

\* C11: whenever process_raw is reached the sector length is one of 128, 256,
\* 512, 1024 with length code 0..3 respectively and the cylinder, head and
\* sector counts are all at least 1; a geometry with a count of 0 or less is
\* rejected before process_raw.
C11_GeometryPositive ==
    PastResolve =>
        /\ args.length \in {128, 256, 512, 1024}
        /\ args.length_code = LengthCode(args.length)
        /\ args.length_code \in 0..3
        /\ args.cylinders >= 1 /\ args.heads >= 1 /\ args.sectors >= 1

\* a geometry of 0 cylinders given by -c 0 has passed main's checks and the
\* capacity check against an empty source; the destination holds a header
\* and no track, and the run has returned 0
C11_ZeroAccepted ==
    /\ pc = "done" /\ status = 0
    /\ args.cylinders = 0 /\ args.heads = 2 /\ args.sectors = 3
    /\ args.length = 128 /\ args.length_code = 0
    /\ ~args.logdisk /\ fsize = 0
    /\ imd = [opened |-> TRUE, header |-> TRUE, tracks |-> <<>>]

\* the slots claimed for the raw positions of a track on head hd, given the
\* table of each skew: the side-1 table, else the head-0 table, else s
ClaimedSlots(hd, tbl1, tbl2) ==
    IF hd > 0 /\ Abs(skew2) > 1 THEN tbl2
    ELSE IF Abs(skew) > 1 THEN tbl1
    ELSE [s \in 0..(args.sectors - 1) |-> s]

\* C12: raw position s of a track on head hd goes to the side-1 table entry
\* when hd > 0 and a side-1 skew of magnitude > 1 was given, otherwise to the
\* head-0 table entry when a head-0 skew of magnitude > 1 was given,
\* otherwise to slot s; a skew of magnitude 0 or 1 builds no table; every
\* slot of a track receives exactly one sector record.
C12_SlotSelection ==
    PastResolve =>
        LET tbl1 == mkskew(skew, args.sectors)
            tbl2 == mkskew(skew2, args.sectors)
        IN  /\ args.sectbl.null <=> (Abs(skew) <= 1)
            /\ args.sectbl2.null <=> (Abs(skew2) <= 1)
            /\ (~args.sectbl.null) => args.sectbl.tbl = tbl1
            /\ (~args.sectbl2.null) => args.sectbl2.tbl = tbl2
            /\ \A t \in DOMAIN disk :
                  (disk[t].status = "PROBED") =>
                      LET slot == ClaimedSlots(t[2], tbl1, tbl2)
                      IN  /\ \A s \in 0..(args.sectors - 1) :
                                /\ disk[t].sectors[slot[s]].status = "GOOD"
                                /\ disk[t].sectors[slot[s]].log_sector
                                       = logSector(args, t[2], s)
                          /\ \A sn \in 0..(args.sectors - 1) :
                                Cardinality({s \in 0..(args.sectors - 1) :
                                                slot[s] = sn}) = 1

\* -k 1 and -K -3 on 3 sectors: head 0 is read in place although a side-1
\* table exists, head 1 through the side-1 table (0, 2, 1)
C12_Witness ==
    /\ skew = 1 /\ skew2 = -3 /\ args.sectors = 3
    /\ args.sectbl.null /\ args.sectbl2.tbl = (0 :> 0 @@ 1 :> 2 @@ 2 :> 1)
    /\ <<0, 0>> \in DOMAIN disk /\ <<0, 1>> \in DOMAIN disk
    /\ disk[<<0, 1>>].status = "PROBED"
    /\ disk[<<0, 0>>].sectors[1].log_sector = 1 + args.offset1
    /\ disk[<<0, 1>>].sectors[2].log_sector = 1 + args.offset2
    /\ disk[<<0, 1>>].sectors[1].log_sector = 2 + args.offset2

\* the tracks whose sector buffers are allocated
Allocated ==
    {t \in DOMAIN disk : \E sn \in DOMAIN disk[t].sectors : disk[t].sectors[sn].data.alloc}

\* the tracks read_track has been called for: those before (cyl, head) in the
\* loop's order, and (cyl, head) itself once it was read
TracksRead ==
    LET upto == cyl * args.heads + head
                    + (IF pc \in {"write", "exit_seek", "exit_malloc", "exit_read"}
                       THEN 1 ELSE 0)
    IN  {t \in (0..(args.cylinders - 1)) \X (0..(args.heads - 1)) :
            t[1] * args.heads + t[2] < upto}

\* C13 as claimed: at every point the sector buffers of at most one track are
\* allocated.
C13_Original == Cardinality(Allocated) <= 1

\* C13 amended: every track read stays in the disk with its buffers
\* allocated, the tracks already written included, until free_disk releases
\* them all together at the end of process_raw.
C13_TracksRetained ==
    /\ (pc \in {"read", "write", "exit_seek", "exit_malloc", "exit_read"}) =>
          /\ DOMAIN disk = TracksRead
          /\ \A i \in 1..Len(imd.tracks) :
                LET t == <<imd.tracks[i].phys_cyl, imd.tracks[i].phys_head>>
                IN  /\ t \in DOMAIN disk
                    /\ disk[t] = imd.tracks[i]
                    /\ \A sn \in DOMAIN disk[t].sectors : disk[t].sectors[sn].data.alloc
          /\ (args.sectors > 0) =>
                \A t \in TracksRead : (t # <<cyl, head>>) => t \in Allocated
    /\ (pc = "done") => disk = NoTracks
    /\ (pc \notin {"read", "write", "done", "exit_seek", "exit_malloc", "exit_read"}) =>
          disk = NoTracks

\* tracks (0,0) and (0,1) have been written and the loop is about to read
\* (1,0): the buffers of both are still allocated
C13_Witness ==
    /\ pc = "read" /\ cyl = 1 /\ head = 0
    /\ args.cylinders = 2 /\ args.heads = 2 /\ args.sectors = 3
    /\ Len(imd.tracks) = 2
    /\ Allocated = {<<0, 0>>, <<0, 1>>}
    /\ disk[<<0, 0>>].sectors[0].data.alloc
    /\ disk[<<0, 1>>].sectors[2].data.alloc

\* the capacity check has been made and the source fails it
CapacityFails ==
    /\ fsize >= 0
    /\ \/ ~args.ignore /\ actual > declared
       \/ ~args.force /\ actual < declared

\* the positions of the log at which the source's size was taken
Checks == {i \in 1..Len(io) : io[i].op = "fstat"}

\* C14: the capacity check is made once and before any output; when it fails
\* the process ends before the destination is opened or truncated, before
\* the header is written and before any track is read or written.
C14_CheckBeforeOutput ==
    LET checks == Checks
        fails  == CapacityFails
    IN  /\ Cardinality(checks) = IF fsize >= 0 THEN 1 ELSE 0
        /\ fails =>
              /\ pc \in {"die_too_large", "die_too_small"}
              /\ status = 1
              /\ ~ENABLED Next
              /\ imd = NoImage
              /\ disk = NoTracks
              /\ io[Len(io)].op = "fstat"
              /\ \A i \in 1..Len(io) : io[i].file # "imd"
        /\ \A i \in 1..Len(io) :
              (io[i].file = "imd" \/ io[i].op = "lseek") =>
                  /\ \E j \in checks : j < i
                  /\ ~fails
        /\ (imd # NoImage \/ disk # NoTracks) => (fsize >= 0 /\ ~fails)

\* a source one byte too large for 2 x 2 x 3 sectors of 128 bytes, with an
\* IMD file named: the run has died with the destination untouched
C14_Witness ==
    /\ pc = "die_too_large" /\ args.imd_filename /\ ~args.ignore
    /\ args.cylinders = 2 /\ args.heads = 2 /\ args.sectors = 3 /\ args.length = 128
    /\ fsize = 1537 /\ ~args.logdisk
    /\ imd = NoImage /\ disk = NoTracks
    /\ io = <<Call("open", "src", 0), Call("fstat", "src", 0)>>

====
